---- MODULE Spec2Model ----
(***************************************************************************)
(* Mr. Fresh token program (src/src/lib.rs): the instruction processor     *)
(* with its three operations Initialize, Mine and UpdateDifficulty acting  *)
(* on one state account.                                                   *)
(*                                                                         *)
(* Number representation.  TLC's integers are 32 bits wide, and MAX_SUPPLY *)
(* is 5 * 10^16.  The two u64 fields that can grow past 2^31               *)
(* (total_supply, total_transactions) are therefore held as two limbs      *)
(* [hi, lo] meaning hi * ONE_FRESH + lo with 0 <= lo < ONE_FRESH; for      *)
(* total_supply hi is the number of whole tokens and lo the nine decimals. *)
(* Every other quantity (difficulty, slots, timestamps, one call's reward) *)
(* stays below 2^31 on the inputs explored and is a plain integer.  The    *)
(* clamps of the saturating operations at 2^64 - 1 and at +-2^63 are out   *)
(* of reach of those inputs and are not represented.                       *)
(***************************************************************************)
EXTENDS Integers, Sequences, FiniteSets, TLC

VARIABLES
    account,        \* the state account: [owner, data], data a MrFreshState
    pre,            \* history: the data the last successful call started from
    last,           \* history: the last successful call
    mined,          \* history: the last successful Mine and what it left
    mines,          \* history: number of successful Mine calls so far
    bursts          \* history: slots of the energy bursts since Initialize

vars == <<account, pre, last, mined, mines, bursts>>

---------------------------------------------------------------------------
(* Program constants *)

MINING_COOLDOWN == 1800
ENERGY_BURST_BONUS == 150
LUCKY_PURR_CHANCE == 100
LUCKY_PURR_BONUS == 110
MIN_DIFFICULTY == 100
HALVING_INTERVAL == 31536000
INITIAL_BASE_REWARD == 10000000

\* Base units per token: "50 million with 9 decimals".  It is the limb base.
ONE_FRESH == 1000000000

\* 50_000_000_000_000_000 base units = 50 million tokens.
MAX_SUPPLY == [hi |-> 50000000, lo |-> 0]

---------------------------------------------------------------------------
(* u64 values too large for one integer: hi * ONE_FRESH + lo *)

U64(n) == [hi |-> n \div ONE_FRESH, lo |-> n % ONE_FRESH]

U64Gt(a, b) == a.hi > b.hi \/ (a.hi = b.hi /\ a.lo > b.lo)

U64Geq(a, b) == a.hi > b.hi \/ (a.hi = b.hi /\ a.lo >= b.lo)

\* a.saturating_add(n) for an n that fits one integer
saturating_add(a, n) ==
    LET s == a.lo + n
    IN  [hi |-> a.hi + (s \div ONE_FRESH), lo |-> s % ONE_FRESH]

\* a.saturating_sub(b), where the difference fits one integer
saturating_sub(a, b) ==
    IF U64Geq(b, a) THEN 0
    ELSE (a.hi - b.hi) * ONE_FRESH + (a.lo - b.lo)

\* i64 saturating_sub; the clamp at the ends of i64 is out of reach
i64_saturating_sub(a, b) == a - b

\* Rust's integer division on i64 truncates toward zero (b > 0)
i64_div(a, b) == IF a >= 0 THEN a \div b ELSE -((-a) \div b)

---------------------------------------------------------------------------
(* Bounds and input sets *)

\* successful Mine calls explored in one run
MaxMines == 2

\* clock.unix_timestamp values: the sentinel 0, both sides of the end of the
\* cooldown after a Mine at 1000 (2799, 2800), and the end of the next one
Times == {0, 1000, 2799, 2800, 4600}

\* clock.unix_timestamp values at Initialize
InitTimes == {0, 1000}

\* clock.slot values: no bonus (1), a poop slot (10), burst only (41), lucky
\* only (1000, the first multiple of 10 that is no poop slot), both (0, 4100)
Slots == {0, 1, 10, 41, 1000, 4100}

\* mining_difficulty arguments, on both sides of MIN_DIFFICULTY
Difficulties == {50, 99, 100, 1000}

\* energy_burst_duration arguments
Durations == {0, 100}

\* halving epochs explored: 0 .. MaxEpoch (the schedule ends at epoch 24)
MaxEpoch == 24

\* successful Mine calls explored in one run along the halving schedule
MaxEpochMines == 1

\* the first second of each of those epochs, counted from an Initialize at
\* time 0
EpochTimes == {k * HALVING_INTERVAL : k \in 0..MaxEpoch}

\* 10_000_000 < 2^24: after 24 halvings the base reward is 0
ScheduleEnd == 24 * HALVING_INTERVAL

\* successful Mine calls explored in one run around the end of the schedule
MaxLateMines == 1

\* clock times of the Mines around the end of the schedule, counted from an
\* Initialize at time 0: epoch 1 (5,000 with difficulty 1000, which fills
\* the cap from NearCapState), epoch 14 (base reward 610), epoch 23 (base
\* reward 1), the last second of epoch 23 and the first second of epoch 24
LateTimes == {HALVING_INTERVAL, 14 * HALVING_INTERVAL, 23 * HALVING_INTERVAL,
              ScheduleEnd - 1, ScheduleEnd}

\* successful Mine calls explored in one run with bonuses along the schedule
MaxBonusMines == 1

\* clock times at which rounding tells the order of the two bonuses apart:
\* with difficulty 1000 the reward is 156 in epoch 6 (257 with the burst
\* first, 256 with the lucky purr first), with difficulty 100 it is 48 in
\* epoch 11 (79 against 78); and time 0, and the end of a cooldown
BonusTimes == {0, 6 * HALVING_INTERVAL, 6 * HALVING_INTERVAL + MINING_COOLDOWN,
               11 * HALVING_INTERVAL}

\* the accounts passed with an instruction: all of them, or too few of
\* them, or all with another account in the place of the clock sysvar
GoodAccounts == [len |-> 3, clock_is_sysvar |-> TRUE]

BadAccounts == {[len |-> 0, clock_is_sysvar |-> TRUE],
                [len |-> 3, clock_is_sysvar |-> FALSE]}

---------------------------------------------------------------------------
(* The reward calculator *)

RECURSIVE halve_abs(_, _)
RECURSIVE halve_to_one(_, _)

\* mutant: one halving whatever the number of epochs
halve_once(reward, epochs) == IF epochs <= 0 THEN reward ELSE reward \div 2

\* mutant: a negative number of epochs halves as often as a positive one
halve_abs(reward, epochs) ==
    IF epochs = 0 THEN reward
    ELSE IF epochs < 0 THEN halve_abs(reward \div 2, epochs + 1)
    ELSE halve_abs(reward \div 2, epochs - 1)

\* mutant: the halved reward never goes below 1
halve_to_one(reward, epochs) ==
    IF epochs <= 0 THEN reward
    ELSE IF reward \div 2 = 0 THEN 1
    ELSE halve_to_one(reward \div 2, epochs - 1)

\* for _ in 0..halving_epoch { r = r.saturating_div(2) }; an empty range
\* (halving_epoch <= 0) runs no iteration
RECURSIVE halve(_, _)
halve(reward, epochs) ==
    IF epochs <= 0 THEN reward
    ELSE halve(reward \div 2, epochs - 1)

time_since_start(state, current_time) ==
    i64_saturating_sub(current_time, state.initialization_timestamp)

halving_epoch(state, current_time) ==
    i64_div(time_since_start(state, current_time), HALVING_INTERVAL)

current_base_reward(state, current_time) ==
    halve(INITIAL_BASE_REWARD, halving_epoch(state, current_time))

\* mutant: a reward of 0 after the division is refused
calculate_mining_reward_no_zero(state, current_time) ==
    IF U64Geq(state.total_supply, MAX_SUPPLY)
    THEN [err |-> "MaxSupplyReached", reward |-> 0]
    ELSE IF current_base_reward(state, current_time) = 0
    THEN [err |-> "MaxSupplyReached", reward |-> 0]
    ELSE IF state.mining_difficulty = 0
    THEN [err |-> "DivideByZero", reward |-> 0]
    ELSE IF current_base_reward(state, current_time)
                \div state.mining_difficulty = 0
    THEN [err |-> "MaxSupplyReached", reward |-> 0]
    ELSE [err |-> "Ok",
          reward |-> current_base_reward(state, current_time)
                         \div state.mining_difficulty]

\* mutant: the supply is not compared with MAX_SUPPLY
calculate_mining_reward_uncapped(state, current_time) ==
    IF current_base_reward(state, current_time) = 0
    THEN [err |-> "MaxSupplyReached", reward |-> 0]
    ELSE IF state.mining_difficulty = 0
    THEN [err |-> "DivideByZero", reward |-> 0]
    ELSE [err |-> "Ok",
          reward |-> current_base_reward(state, current_time)
                         \div state.mining_difficulty]

\* Result<u64, ProgramError>: [err, reward]; u64::saturating_div panics on a
\* zero divisor, which aborts the call
calculate_mining_reward(state, current_time) ==
    IF U64Geq(state.total_supply, MAX_SUPPLY)
    THEN [err |-> "MaxSupplyReached", reward |-> 0]
    ELSE IF current_base_reward(state, current_time) = 0
    THEN [err |-> "MaxSupplyReached", reward |-> 0]
    ELSE IF state.mining_difficulty = 0
    THEN [err |-> "DivideByZero", reward |-> 0]
    ELSE [err |-> "Ok",
          reward |-> current_base_reward(state, current_time)
                         \div state.mining_difficulty]

---------------------------------------------------------------------------
(* The bonus evaluator and the gates of Mine *)

is_energy_burst_active(clock, state) ==
    LET slot_since_last ==
            IF clock.slot >= state.last_energy_burst_slot
            THEN clock.slot - state.last_energy_burst_slot ELSE 0
        mod_check == clock.slot % 41 = 0
        duration_check == \/ state.last_energy_burst_slot = 0
                          \/ slot_since_last >= state.energy_burst_duration
    IN  duration_check /\ mod_check

cooldown_active(state, current_time) ==
    LET time_since_last ==
            i64_saturating_sub(current_time, state.last_mining_timestamp)
    IN  state.last_mining_timestamp # 0 /\ time_since_last < MINING_COOLDOWN

\* mutant: the window of the poop check includes slot 1000
poop_discovered_le(slot) == slot # 0 /\ slot % 10 = 0 /\ slot <= 1000

poop_discovered(slot) == slot # 0 /\ slot % 10 = 0 /\ slot < 1000

\* mutant: the energy burst doubles the reward
energy_burst_bonus_double(reward) == (reward * 200) \div 100

\* reward.saturating_mul(ENERGY_BURST_BONUS).saturating_div(100)
energy_burst_bonus(reward) == (reward * ENERGY_BURST_BONUS) \div 100

\* if slot % LUCKY_PURR_CHANCE == 0 { reward * LUCKY_PURR_BONUS / 100 }
lucky_purr_bonus(slot, reward) ==
    IF slot % LUCKY_PURR_CHANCE = 0
    THEN (reward * LUCKY_PURR_BONUS) \div 100
    ELSE reward

\* mutant: the clamp is missing
clamp_reward_missing(state, reward) == reward

\* mutant: a reward that would pass the cap is dropped, not cut
clamp_reward_drop(state, reward) ==
    IF U64Gt(saturating_add(state.total_supply, reward), MAX_SUPPLY)
    THEN 0
    ELSE reward

\* "Ensure reward wouldn't exceed max supply"
clamp_reward(state, reward) ==
    IF U64Gt(saturating_add(state.total_supply, reward), MAX_SUPPLY)
    THEN saturating_sub(MAX_SUPPLY, state.total_supply)
    ELSE reward

---------------------------------------------------------------------------
(* The three operations.  Each returns [result, data, reward, minted]:     *)
(* the ProgramResult, the account data after the call, and for a           *)
(* successful Mine the reward before the clamp and the amount minted.      *)

Failed(err, state_account) ==
    [result |-> err, data |-> state_account.data, reward |-> 0, minted |-> 0]

Stored(state) ==
    [result |-> "Ok", data |-> state, reward |-> 0, minted |-> 0]

\* mutant: an account that was initialized before is refused
process_initialize_once(state_account, accounts_len, clock_is_sysvar, clock, mining_difficulty, energy_burst_duration) ==
    IF accounts_len < 2 THEN Failed("NotEnoughAccountKeys", state_account)
    ELSE IF state_account.owner # "program_id"
    THEN Failed("IncorrectProgramId", state_account)
    ELSE IF ~clock_is_sysvar THEN Failed("InvalidArgument", state_account)
    ELSE IF state_account.data.mining_difficulty # 0
    THEN Failed("AccountAlreadyInitialized", state_account)
    ELSE Stored([total_supply |-> U64(0),
                 mining_difficulty |-> mining_difficulty,
                 last_mining_timestamp |-> 0,
                 total_miners |-> 0,
                 total_transactions |-> U64(0),
                 last_energy_burst_slot |-> 0,
                 energy_burst_duration |-> energy_burst_duration,
                 initialization_timestamp |-> clock.unix_timestamp])

process_initialize(state_account, accounts_len, clock_is_sysvar, clock, mining_difficulty, energy_burst_duration) ==
    IF accounts_len < 2 THEN Failed("NotEnoughAccountKeys", state_account)
    ELSE IF state_account.owner # "program_id"
    THEN Failed("IncorrectProgramId", state_account)
    ELSE IF ~clock_is_sysvar THEN Failed("InvalidArgument", state_account)
    ELSE Stored([total_supply |-> U64(0),
                 mining_difficulty |-> mining_difficulty,
                 last_mining_timestamp |-> 0,
                 total_miners |-> 0,
                 total_transactions |-> U64(0),
                 last_energy_burst_slot |-> 0,
                 energy_burst_duration |-> energy_burst_duration,
                 initialization_timestamp |-> clock.unix_timestamp])

\* mutant: total_supply is assigned the reward, not increased by it
mint_overwrite(state, clock, base) ==
    LET burst == is_energy_burst_active(clock, state)
        after_burst == IF burst THEN energy_burst_bonus(base) ELSE base
        bonus_reward == lucky_purr_bonus(clock.slot, after_burst)
        reward == clamp_reward(state, bonus_reward)
    IN  [result |-> "Ok",
         data |-> [state EXCEPT
             !.last_energy_burst_slot = IF burst THEN clock.slot ELSE @,
             !.last_mining_timestamp = clock.unix_timestamp,
             !.total_supply = U64(reward),
             !.total_transactions = saturating_add(@, 1)],
         reward |-> bonus_reward,
         minted |-> reward]

\* mutant: last_mining_timestamp is not updated
mint_keep_timestamp(state, clock, base) ==
    LET burst == is_energy_burst_active(clock, state)
        after_burst == IF burst THEN energy_burst_bonus(base) ELSE base
        bonus_reward == lucky_purr_bonus(clock.slot, after_burst)
        reward == clamp_reward(state, bonus_reward)
    IN  [result |-> "Ok",
         data |-> [state EXCEPT
             !.last_energy_burst_slot = IF burst THEN clock.slot ELSE @,
             !.total_supply = saturating_add(@, reward),
             !.total_transactions = saturating_add(@, 1)],
         reward |-> bonus_reward,
         minted |-> reward]

\* mutant: the lucky purr bonus is applied before the energy burst bonus
mint_lucky_first(state, clock, base) ==
    LET burst == is_energy_burst_active(clock, state)
        after_lucky == lucky_purr_bonus(clock.slot, base)
        bonus_reward == IF burst THEN energy_burst_bonus(after_lucky)
                        ELSE after_lucky
        reward == clamp_reward(state, bonus_reward)
    IN  [result |-> "Ok",
         data |-> [state EXCEPT
             !.last_energy_burst_slot = IF burst THEN clock.slot ELSE @,
             !.last_mining_timestamp = clock.unix_timestamp,
             !.total_supply = saturating_add(@, reward),
             !.total_transactions = saturating_add(@, 1)],
         reward |-> bonus_reward,
         minted |-> reward]

\* the part of process_mining after both gates and the reward calculation
mint(state, clock, base) ==
    LET burst == is_energy_burst_active(clock, state)
        after_burst == IF burst THEN energy_burst_bonus(base) ELSE base
        bonus_reward == lucky_purr_bonus(clock.slot, after_burst)
        reward == clamp_reward(state, bonus_reward)
    IN  [result |-> "Ok",
         data |-> [state EXCEPT
             !.last_energy_burst_slot = IF burst THEN clock.slot ELSE @,
             !.last_mining_timestamp = clock.unix_timestamp,
             !.total_supply = saturating_add(@, reward),
             !.total_transactions = saturating_add(@, 1)],
         reward |-> bonus_reward,
         minted |-> reward]

\* mutant: the burst slot is stored before the reward calculation can fail
process_mining_early_store(state_account, accounts_len, clock_is_sysvar, clock) ==
    LET state == state_account.data
        calc == calculate_mining_reward(state, clock.unix_timestamp)
    IN  IF accounts_len < 3 THEN Failed("NotEnoughAccountKeys", state_account)
        ELSE IF state_account.owner # "program_id"
        THEN Failed("IncorrectProgramId", state_account)
        ELSE IF ~clock_is_sysvar THEN Failed("InvalidArgument", state_account)
        ELSE IF cooldown_active(state, clock.unix_timestamp)
        THEN Failed("CooldownActive", state_account)
        ELSE IF poop_discovered(clock.slot)
        THEN Failed("PoopDiscovered", state_account)
        ELSE IF calc.err # "Ok"
        THEN [result |-> calc.err,
              data |-> [state EXCEPT !.last_energy_burst_slot =
                  IF is_energy_burst_active(clock, state)
                  THEN clock.slot ELSE @],
              reward |-> 0, minted |-> 0]
        ELSE mint(state, clock, calc.reward)

\* mutant: the poop gate comes before the cooldown gate
process_mining_poop_first(state_account, accounts_len, clock_is_sysvar, clock) ==
    LET state == state_account.data
        calc == calculate_mining_reward(state, clock.unix_timestamp)
    IN  IF accounts_len < 3 THEN Failed("NotEnoughAccountKeys", state_account)
        ELSE IF state_account.owner # "program_id"
        THEN Failed("IncorrectProgramId", state_account)
        ELSE IF ~clock_is_sysvar THEN Failed("InvalidArgument", state_account)
        ELSE IF poop_discovered(clock.slot)
        THEN Failed("PoopDiscovered", state_account)
        ELSE IF cooldown_active(state, clock.unix_timestamp)
        THEN Failed("CooldownActive", state_account)
        ELSE IF calc.err # "Ok" THEN Failed(calc.err, state_account)
        ELSE mint(state, clock, calc.reward)

process_mining(state_account, accounts_len, clock_is_sysvar, clock) ==
    LET state == state_account.data
        calc == calculate_mining_reward(state, clock.unix_timestamp)
    IN  IF accounts_len < 3 THEN Failed("NotEnoughAccountKeys", state_account)
        ELSE IF state_account.owner # "program_id"
        THEN Failed("IncorrectProgramId", state_account)
        ELSE IF ~clock_is_sysvar THEN Failed("InvalidArgument", state_account)
        ELSE IF cooldown_active(state, clock.unix_timestamp)
        THEN Failed("CooldownActive", state_account)
        ELSE IF poop_discovered(clock.slot)
        THEN Failed("PoopDiscovered", state_account)
        ELSE IF calc.err # "Ok" THEN Failed(calc.err, state_account)
        ELSE mint(state, clock, calc.reward)

\* mutant: UpdateDifficulty also ends the cooldown
process_update_difficulty_reset(state_account, accounts_len, new_difficulty) ==
    IF accounts_len < 1 THEN Failed("NotEnoughAccountKeys", state_account)
    ELSE IF state_account.owner # "program_id"
    THEN Failed("IncorrectProgramId", state_account)
    ELSE Stored([state_account.data EXCEPT
                     !.mining_difficulty = new_difficulty,
                     !.last_mining_timestamp = 0])

process_update_difficulty(state_account, accounts_len, new_difficulty) ==
    IF accounts_len < 1 THEN Failed("NotEnoughAccountKeys", state_account)
    ELSE IF state_account.owner # "program_id"
    THEN Failed("IncorrectProgramId", state_account)
    ELSE Stored([state_account.data EXCEPT
                     !.mining_difficulty = new_difficulty])

\* mutant: UpdateDifficulty does not check the new difficulty
process_instruction_unchecked(instruction, state_account, accounts_len, clock_is_sysvar, clock) ==
    CASE instruction.tag = "Initialize" ->
            IF instruction.mining_difficulty < MIN_DIFFICULTY
            THEN Failed("DifficultyTooLow", state_account)
            ELSE process_initialize(state_account, accounts_len,
                     clock_is_sysvar, clock, instruction.mining_difficulty,
                     instruction.energy_burst_duration)
      [] instruction.tag = "Mine" ->
            process_mining(state_account, accounts_len, clock_is_sysvar, clock)
      [] instruction.tag = "UpdateDifficulty" ->
            process_update_difficulty(state_account, accounts_len,
                instruction.mining_difficulty)
      [] OTHER -> Failed("InvalidInstruction", state_account)

\* mutant: both checks refuse MIN_DIFFICULTY itself
process_instruction_le(instruction, state_account, accounts_len, clock_is_sysvar, clock) ==
    CASE instruction.tag = "Initialize" ->
            IF instruction.mining_difficulty <= MIN_DIFFICULTY
            THEN Failed("DifficultyTooLow", state_account)
            ELSE process_initialize(state_account, accounts_len,
                     clock_is_sysvar, clock, instruction.mining_difficulty,
                     instruction.energy_burst_duration)
      [] instruction.tag = "Mine" ->
            process_mining(state_account, accounts_len, clock_is_sysvar, clock)
      [] instruction.tag = "UpdateDifficulty" ->
            IF instruction.mining_difficulty <= MIN_DIFFICULTY
            THEN Failed("DifficultyTooLow", state_account)
            ELSE process_update_difficulty(state_account, accounts_len,
                     instruction.mining_difficulty)
      [] OTHER -> Failed("InvalidInstruction", state_account)

\* instruction: [tag, mining_difficulty, energy_burst_duration]; tag
\* "Invalid" is instruction data that try_from_slice rejects
process_instruction(instruction, state_account, accounts_len, clock_is_sysvar, clock) ==
    CASE instruction.tag = "Initialize" ->
            IF instruction.mining_difficulty < MIN_DIFFICULTY
            THEN Failed("DifficultyTooLow", state_account)
            ELSE process_initialize(state_account, accounts_len,
                     clock_is_sysvar, clock, instruction.mining_difficulty,
                     instruction.energy_burst_duration)
      [] instruction.tag = "Mine" ->
            process_mining(state_account, accounts_len, clock_is_sysvar, clock)
      [] instruction.tag = "UpdateDifficulty" ->
            IF instruction.mining_difficulty < MIN_DIFFICULTY
            THEN Failed("DifficultyTooLow", state_account)
            ELSE process_update_difficulty(state_account, accounts_len,
                     instruction.mining_difficulty)
      [] OTHER -> Failed("InvalidInstruction", state_account)

---------------------------------------------------------------------------
(* Start states *)

\* A state account as the system program creates it: 64 zero bytes
ZeroState ==
    [total_supply |-> U64(0),
     mining_difficulty |-> 0,
     last_mining_timestamp |-> 0,
     total_miners |-> 0,
     total_transactions |-> U64(0),
     last_energy_burst_slot |-> 0,
     energy_burst_duration |-> 0,
     initialization_timestamp |-> 0]

\* The account after Initialize{2000, 100} at time 0, then 10^13 - 2 Mine
\* calls at time 0 and slot 1 (5000 each: last_mining_timestamp stays 0, so
\* none is in cooldown), one more at time 1000, then UpdateDifficulty{1000}:
\* 5000 below MAX_SUPPLY.  The cap is out of reach of single steps; this
\* state stands for that run.
NearCapState ==
    [total_supply |-> [hi |-> MAX_SUPPLY.hi - 1, lo |-> ONE_FRESH - 5000],
     mining_difficulty |-> 1000,
     last_mining_timestamp |-> 1000,
     total_miners |-> 0,
     total_transactions |-> [hi |-> 9999, lo |-> ONE_FRESH - 1],
     last_energy_burst_slot |-> 0,
     energy_burst_duration |-> 100,
     initialization_timestamp |-> 0]

NoClock == [unix_timestamp |-> 0, slot |-> 0]

NoCall ==
    [op |-> "None", mining_difficulty |-> 0, energy_burst_duration |-> 0,
     clock |-> NoClock, reward |-> 0, minted |-> 0]

NotMined ==
    [seen |-> FALSE, reinit |-> FALSE, at |-> 0,
     total_supply |-> U64(0), total_transactions |-> U64(0)]

Init ==
    /\ account \in {[owner |-> "program_id", data |-> ZeroState],
                    [owner |-> "other", data |-> ZeroState],
                    [owner |-> "program_id", data |-> NearCapState]}
    /\ pre = account.data
    /\ last = NoCall
    /\ mined = NotMined
    /\ mines = 0
    /\ bursts = {}

---------------------------------------------------------------------------
(* The calls of the entrypoint.  A call is the instruction with the        *)
(* accounts and the clock it is given.                                     *)

Call(tag, d, dur, a, clock) ==
    [instruction |-> [tag |-> tag, mining_difficulty |-> d,
                      energy_burst_duration |-> dur],
     accounts_len |-> a.len,
     clock_is_sysvar |-> a.clock_is_sysvar,
     clock |-> clock]

\* every instruction with the accounts it needs, and each kind of
\* instruction once with each of the bad account lists
InitializeCalls(times) ==
    {Call("Initialize", d, dur, GoodAccounts,
          [unix_timestamp |-> t, slot |-> 1]) :
        d \in Difficulties, dur \in Durations, t \in times}
    \cup {Call("Initialize", d, 100, a, [unix_timestamp |-> 0, slot |-> 1]) :
        d \in Difficulties, a \in BadAccounts}

MineCalls(times, slots) ==
    {Call("Mine", 0, 0, GoodAccounts, [unix_timestamp |-> t, slot |-> s]) :
        t \in times, s \in slots}
    \cup {Call("Mine", 0, 0, a, [unix_timestamp |-> 0, slot |-> 1]) :
        a \in BadAccounts}

UpdateDifficultyCalls ==
    {Call("UpdateDifficulty", d, 0, a, NoClock) :
        d \in Difficulties, a \in {GoodAccounts} \cup BadAccounts}

InvalidCalls == {Call("Invalid", 0, 0, GoodAccounts, NoClock)}

\* what the entrypoint returns for a call on the account as it is now
Run(call) ==
    process_instruction(call.instruction, account, call.accounts_len,
                        call.clock_is_sysvar, call.clock)

\* One call.  A failed call changes nothing: the runtime discards it, and
\* the history variables keep describing the last call that succeeded.
\* Initialize reads nothing of the data it overwrites; pre then holds the
\* data it wrote, and mined.reinit tells that a mined account was overwritten.
\* bursts collects the slots of the Mines that activated the energy burst on
\* the state as it is since the last Initialize.
Execute(call) ==
    LET out == Run(call)
        tag == call.instruction.tag
    IN  IF out.result # "Ok"
        THEN UNCHANGED <<account, pre, last, mined, bursts>>
        ELSE /\ account' = [account EXCEPT !.data = out.data]
             /\ pre' = IF tag = "Initialize" THEN out.data ELSE account.data
             /\ last' = [op |-> tag,
                         mining_difficulty |->
                             call.instruction.mining_difficulty,
                         energy_burst_duration |->
                             call.instruction.energy_burst_duration,
                         clock |-> call.clock,
                         reward |-> out.reward,
                         minted |-> out.minted]
             /\ mined' =
                 CASE tag = "Mine" ->
                        [seen |-> TRUE, reinit |-> FALSE,
                         at |-> call.clock.unix_timestamp,
                         total_supply |-> out.data.total_supply,
                         total_transactions |-> out.data.total_transactions]
                   [] tag = "Initialize" -> [mined EXCEPT !.reinit = mined.seen]
                   [] OTHER -> mined
             /\ bursts' =
                 CASE tag = "Mine" ->
                        IF is_energy_burst_active(call.clock, account.data)
                        THEN bursts \cup {call.clock.slot} ELSE bursts
                   [] tag = "Initialize" -> {}
                   [] OTHER -> bursts

Initialize ==
    \E call \in InitializeCalls(InitTimes) :
        /\ Execute(call)
        /\ UNCHANGED mines

Mine ==
    \E call \in MineCalls(Times, Slots) :
        /\ Run(call).result = "Ok" => mines < MaxMines
        /\ Execute(call)
        /\ mines' = IF Run(call).result = "Ok" THEN mines + 1 ELSE mines

UpdateDifficulty ==
    \E call \in UpdateDifficultyCalls :
        /\ Execute(call)
        /\ UNCHANGED mines

InvalidInstruction ==
    \E call \in InvalidCalls :
        /\ Execute(call)
        /\ UNCHANGED mines

Next == Initialize \/ Mine \/ UpdateDifficulty \/ InvalidInstruction

Spec == Init /\ [][Next]_vars

(* The same program along the halving schedule: Initialize at time 0, Mine  *)
(* at the start of each epoch, on a slot without bonus.                     *)

InitializeAtZero ==
    \E call \in InitializeCalls({0}) :
        /\ Execute(call)
        /\ UNCHANGED mines

MineAtEpochs ==
    \E call \in MineCalls(EpochTimes, {1}) :
        /\ Run(call).result = "Ok" => mines < MaxEpochMines
        /\ Execute(call)
        /\ mines' = IF Run(call).result = "Ok" THEN mines + 1 ELSE mines

NextHalving ==
    InitializeAtZero \/ MineAtEpochs \/ UpdateDifficulty \/ InvalidInstruction

SpecHalving == Init /\ [][NextHalving]_vars

(* The same program around the end of the halving schedule, with a slot    *)
(* without bonus, a poop slot and a slot with both bonuses.                *)

MineLate ==
    \E call \in MineCalls(LateTimes, {1, 10, 4100}) :
        /\ Run(call).result = "Ok" => mines < MaxLateMines
        /\ Execute(call)
        /\ mines' = IF Run(call).result = "Ok" THEN mines + 1 ELSE mines

NextLate ==
    InitializeAtZero \/ MineLate \/ UpdateDifficulty \/ InvalidInstruction

SpecLate == Init /\ [][NextLate]_vars

(* The same program with every kind of slot at later epochs, where the     *)
(* rewards are small enough for the rounding of the bonuses to show.       *)

MineWithBonus ==
    \E call \in MineCalls(BonusTimes, Slots) :
        /\ Run(call).result = "Ok" => mines < MaxBonusMines
        /\ Execute(call)
        /\ mines' = IF Run(call).result = "Ok" THEN mines + 1 ELSE mines

NextBonus ==
    InitializeAtZero \/ MineWithBonus \/ UpdateDifficulty \/ InvalidInstruction

SpecBonus == Init /\ [][NextBonus]_vars

---------------------------------------------------------------------------
(* Properties.  A property of an operation is stated for every call of it  *)
(* on every reachable account: Run(call) is what the entrypoint returns.   *)

WellFormed(call) == call.accounts_len = 3 /\ call.clock_is_sysvar

AllMineCalls == MineCalls(Times, Slots)

AllInitializeCalls == InitializeCalls(InitTimes)

\* C1: in every reachable state 0 <= total_supply <= MAX_SUPPLY.
C1_SupplyWithinCap ==
    LET s == account.data.total_supply
    IN  /\ s.hi >= 0 /\ s.lo >= 0 /\ s.lo < ONE_FRESH
        /\ U64Geq(MAX_SUPPLY, s)

\* a Mine with both bonuses (16,500) was cut to the 5,000 left below the cap
C1_Witness ==
    /\ last.op = "Mine"
    /\ last.reward = 16500 /\ last.minted = 5000
    /\ account.data.total_supply = MAX_SUPPLY

\* C2: once a Mine has succeeded at time T (and no Initialize since), every
\* Mine with a clock time in [T, T + MINING_COOLDOWN) fails with
\* CooldownActive and leaves the account data unchanged, T = 0 included.
C2_CooldownAfterEveryMine ==
    (mined.seen /\ ~mined.reinit) =>
        \A call \in AllMineCalls :
            ( /\ WellFormed(call)
              /\ mined.at <= call.clock.unix_timestamp
              /\ call.clock.unix_timestamp < mined.at + MINING_COOLDOWN )
            => LET out == Run(call)
               IN  /\ out.result = "CooldownActive"
                   /\ out.data = account.data

\* C3: a call that fails leaves every field of the account data unchanged.
C3_FailureChangesNothing ==
    \A call \in AllInitializeCalls \cup AllMineCalls
                \cup UpdateDifficultyCalls \cup InvalidCalls :
        LET out == Run(call)
        IN  out.result # "Ok" => out.data = account.data

\* a Mine on a burst slot fails at the reward calculation (supply at the cap)
C3_Witness ==
    /\ last.op = "Mine"
    /\ account.data.total_supply = MAX_SUPPLY
    /\ \E call \in AllMineCalls :
          /\ Run(call).result = "MaxSupplyReached"
          /\ is_energy_burst_active(call.clock, account.data)
          /\ call.clock.slot # account.data.last_energy_burst_slot

\* C4: every state other than a never-touched fresh account has
\* mining_difficulty >= MIN_DIFFICULTY.
C4_DifficultyFloor ==
    \/ account.data.mining_difficulty >= MIN_DIFFICULTY
    \/ (last.op = "None" /\ account.data = ZeroState)

\* the difficulty of a mined account was updated
C4_Witness ==
    /\ last.op = "UpdateDifficulty"
    /\ mined.seen /\ ~mined.reinit
    /\ account.data.mining_difficulty # pre.mining_difficulty

\* C5: Initialize and UpdateDifficulty with a difficulty below MIN_DIFFICULTY
\* fail with DifficultyTooLow and change nothing, in every state; with a
\* difficulty of at least MIN_DIFFICULTY they never return DifficultyTooLow.
C5_DifficultyTooLow ==
    \A call \in AllInitializeCalls \cup UpdateDifficultyCalls :
        LET out == Run(call)
        IN  IF call.instruction.mining_difficulty < 100
            THEN /\ out.result = "DifficultyTooLow"
                 /\ out.data = account.data
            ELSE out.result # "DifficultyTooLow"

\* on a mined account UpdateDifficulty{50} fails and UpdateDifficulty{100} works
C5_Witness ==
    /\ mined.seen
    /\ \E call \in UpdateDifficultyCalls :
          /\ call.instruction.mining_difficulty = 50
          /\ Run(call).result = "DifficultyTooLow"
    /\ \E call \in UpdateDifficultyCalls :
          /\ call.instruction.mining_difficulty = 100
          /\ Run(call).result = "Ok"

\* C6: for a difficulty D >= 100 and an epoch k at which the schedule is not
\* exhausted, the reward calculator returns floor(INITIAL_BASE_REWARD / 2^k
\* / D) at the first and at the last second of epoch k; the reward of epoch
\* k + 1 is at most that of epoch k; the reward of epoch 1 is half that of
\* epoch 0, rounded down.  (Initialize is at time 0 here, so the elapsed
\* time is the clock time.)
C6_HalvingSchedule ==
    /\ (/\ account.data.mining_difficulty >= 100
        /\ account.data.initialization_timestamp = 0
        /\ U64Gt(MAX_SUPPLY, account.data.total_supply))
       => \A k \in 0..MaxEpoch :
            \A t \in {k * HALVING_INTERVAL,
                      k * HALVING_INTERVAL + (HALVING_INTERVAL - 1)} :
              LET D == account.data.mining_difficulty
                  r == calculate_mining_reward(account.data, t)
                  next == calculate_mining_reward(account.data,
                                                  t + HALVING_INTERVAL)
                  first == calculate_mining_reward(account.data, 0)
              IN  /\ r.err = "Ok" <=> (INITIAL_BASE_REWARD \div (2 ^ k)) > 0
                  /\ r.err = "Ok" =>
                       r.reward = (INITIAL_BASE_REWARD \div (2 ^ k)) \div D
                  /\ (r.err = "Ok" /\ next.err = "Ok") =>
                       next.reward <= r.reward
                  /\ k = 1 => r.reward = first.reward \div 2
    /\ (last.op = "Mine" /\ pre.initialization_timestamp = 0)
       => LET k == last.clock.unix_timestamp \div HALVING_INTERVAL
          IN  last.reward =
                (INITIAL_BASE_REWARD \div (2 ^ k)) \div pre.mining_difficulty

\* Initialize{1000, _} at 0, then a Mine at exactly HALVING_INTERVAL: 5,000
C6_Witness ==
    /\ last.op = "Mine"
    /\ last.clock.unix_timestamp = HALVING_INTERVAL
    /\ pre.mining_difficulty = 1000
    /\ pre.initialization_timestamp = 0
    /\ last.reward = 5000
    /\ account.data.total_supply = U64(5000)

\* C7: a Mine that succeeds with total_supply + (bonus-adjusted reward) over
\* MAX_SUPPLY leaves total_supply = MAX_SUPPLY exactly and mints MAX_SUPPLY -
\* total_supply; any other successful Mine adds the bonus-adjusted reward.
\* A Mine that passes the gates with the supply below the cap succeeds.
C7_ClampAtCap ==
    \A call \in AllMineCalls :
        LET out == Run(call)
            old == account.data.total_supply
            sum == saturating_add(old, out.reward)
        IN  /\ out.result = "Ok" =>
                 IF U64Gt(sum, MAX_SUPPLY)
                 THEN /\ out.data.total_supply = MAX_SUPPLY
                      /\ saturating_add(old, out.minted) = MAX_SUPPLY
                 ELSE /\ out.data.total_supply = sum
                      /\ out.minted = out.reward
            /\ ( /\ WellFormed(call)
                 /\ account.owner = "program_id"
                 /\ account.data.mining_difficulty >= MIN_DIFFICULTY
                 /\ U64Gt(MAX_SUPPLY, old)
                 /\ out.result \notin {"CooldownActive", "PoopDiscovered"} )
               => out.result = "Ok"

\* 5,000 below the cap a reward of 10,000 was cut to 5,000
C7_Witness ==
    /\ last.op = "Mine"
    /\ pre.total_supply = NearCapState.total_supply
    /\ last.reward = 10000 /\ last.minted = 5000
    /\ account.data.total_supply = MAX_SUPPLY

\* C8: a successful Initialize{difficulty, duration} at clock time now
\* writes exactly total_supply = 0, mining_difficulty = difficulty,
\* energy_burst_duration = duration, initialization_timestamp = now and 0
\* in every other field, whatever the account held; on an account of the
\* program it is never refused for having been initialized before.
C8_InitializeOverwrites ==
    \A call \in AllInitializeCalls :
        LET out == Run(call)
        IN  /\ out.result = "Ok" =>
                 out.data =
                   [total_supply |-> [hi |-> 0, lo |-> 0],
                    mining_difficulty |-> call.instruction.mining_difficulty,
                    last_mining_timestamp |-> 0,
                    total_miners |-> 0,
                    total_transactions |-> [hi |-> 0, lo |-> 0],
                    last_energy_burst_slot |-> 0,
                    energy_burst_duration |->
                        call.instruction.energy_burst_duration,
                    initialization_timestamp |-> call.clock.unix_timestamp]
            /\ ( /\ WellFormed(call)
                 /\ account.owner = "program_id"
                 /\ call.instruction.mining_difficulty >= 100 )
               => out.result = "Ok"

\* an account that was initialized and mined has been initialized again
C8_Witness ==
    /\ last.op = "Initialize"
    /\ mined.seen /\ mined.reinit
    /\ U64Gt(mined.total_supply, U64(0))
    /\ account.data.total_supply = U64(0)
    /\ account.data.total_transactions = U64(0)
    /\ account.data.initialization_timestamp = 1000

\* C9 as claimed: what a Mine call leaves in total_supply and
\* total_transactions is at least what every earlier Mine call left,
\* whatever calls came in between.
C9_NeverDecreases ==
    mined.seen =>
        \A call \in AllMineCalls :
            LET out == Run(call)
            IN  /\ U64Geq(out.data.total_supply, mined.total_supply)
                /\ U64Geq(out.data.total_transactions,
                          mined.total_transactions)

\* C9 as amended: the same, as long as no Initialize has succeeded since the
\* earlier Mine.
C9_NeverDecreasesUntilInitialize ==
    (mined.seen /\ ~mined.reinit) =>
        \A call \in AllMineCalls :
            LET out == Run(call)
            IN  /\ U64Geq(out.data.total_supply, mined.total_supply)
                /\ U64Geq(out.data.total_transactions,
                          mined.total_transactions)

\* a second Mine has succeeded since the last Initialize, and minted
C9_Witness ==
    /\ last.op = "Mine"
    /\ ~mined.reinit
    /\ account.data.total_transactions = U64(2)
    /\ U64Gt(account.data.total_supply, pre.total_supply)
    /\ U64Gt(pre.total_supply, U64(0))

\* the slots in which the poop check fires: 10, 20, ..., 990
PoopSlots == {10 * i : i \in 1..99}

\* C10: a Mine that gets past the cooldown gate fails with PoopDiscovered
\* exactly when its slot is one of 10, 20, ..., 990, and then changes
\* nothing; no Mine at another slot returns PoopDiscovered.
C10_PoopWindow ==
    \A call \in AllMineCalls :
        LET out == Run(call)
            past_cooldown ==
                /\ WellFormed(call)
                /\ account.owner = "program_id"
                /\ out.result # "CooldownActive"
        IN  /\ past_cooldown =>
                 (out.result = "PoopDiscovered"
                     <=> call.clock.slot \in PoopSlots)
            /\ out.result = "PoopDiscovered" =>
                 /\ call.clock.slot \in PoopSlots
                 /\ out.data = account.data

\* on a mined account, after the cooldown, a Mine at slot 10 fails with
\* PoopDiscovered and one at slot 1000 does not
C10_Witness ==
    /\ mined.seen /\ ~mined.reinit
    /\ \E call \in AllMineCalls :
          /\ call.clock.slot = 10
          /\ Run(call).result = "PoopDiscovered"
    /\ \E call \in AllMineCalls :
          /\ call.clock.slot = 1000
          /\ Run(call).result = "Ok"

\* C11 as claimed: a Mine that activates the energy burst does so at least
\* energy_burst_duration slots after every earlier activation on the same
\* state (no Initialize in between), an earlier activation at slot 0
\* included.  The slot of the later call is not before the earlier one.
C11_BurstGap ==
    \A call \in AllMineCalls :
        \A earlier \in bursts :
            ( /\ call.clock.slot >= earlier
              /\ Run(call).result = "Ok"
              /\ is_energy_burst_active(call.clock, account.data) )
            => call.clock.slot >=
                   earlier + account.data.energy_burst_duration

\* C12 as claimed: once a Mine has brought total_supply to MAX_SUPPLY, every
\* later Mine fails and mints nothing, whatever calls (UpdateDifficulty,
\* Initialize) came in between and whatever the clock.
C12_CapIsPermanent ==
    (mined.seen /\ U64Geq(mined.total_supply, MAX_SUPPLY)) =>
        \A call \in AllMineCalls :
            LET out == Run(call)
            IN  /\ out.result # "Ok"
                /\ out.data = account.data

\* C12 as amended: the same, as long as no Initialize has succeeded since
\* the supply reached MAX_SUPPLY; a Mine that gets past the cooldown and
\* poop gates then fails with MaxSupplyReached.
C12_CapUntilInitialize ==
    (mined.seen /\ ~mined.reinit /\ U64Geq(mined.total_supply, MAX_SUPPLY)) =>
        \A call \in AllMineCalls :
            LET out == Run(call)
            IN  /\ out.result # "Ok"
                /\ out.data = account.data
                /\ (WellFormed(call) /\ account.owner = "program_id") =>
                       out.result \in {"CooldownActive", "PoopDiscovered",
                                       "MaxSupplyReached"}

\* the supply reached the cap, the difficulty was then lowered, and a Mine
\* after the cooldown fails with MaxSupplyReached
C12_Witness ==
    /\ last.op = "UpdateDifficulty"
    /\ mined.seen /\ ~mined.reinit
    /\ mined.total_supply = MAX_SUPPLY
    /\ account.data.mining_difficulty = 100
    /\ \E call \in AllMineCalls :
          /\ call.clock.unix_timestamp >= mined.at + MINING_COOLDOWN
          /\ Run(call).result = "MaxSupplyReached"

\* the state that Initialize{1000, 100} at time 0 writes
ScenarioA ==
    [total_supply |-> U64(0),
     mining_difficulty |-> 1000,
     last_mining_timestamp |-> 0,
     total_miners |-> 0,
     total_transactions |-> U64(0),
     last_energy_burst_slot |-> 0,
     energy_burst_duration |-> 100,
     initialization_timestamp |-> 0]

\* C13: a successful Mine at clock time t leaves last_mining_timestamp = t,
\* total_transactions one higher and total_supply higher by the final
\* reward; on a slot without bonus and with room below the cap (epoch 0
\* here) the final reward is floor(INITIAL_BASE_REWARD / mining_difficulty).
\* After Initialize{1000, 100} at time 0, Mine at time 0 and slot 1 succeeds
\* and leaves total_supply = 10,000.
C13_MineCommits ==
    \A call \in AllMineCalls :
        LET out == Run(call)
            old == account.data
            slot == call.clock.slot
            plain == INITIAL_BASE_REWARD \div old.mining_difficulty
        IN  /\ out.result = "Ok" =>
                 /\ out.data.last_mining_timestamp =
                        call.clock.unix_timestamp
                 /\ out.data.total_transactions =
                        saturating_add(old.total_transactions, 1)
                 /\ out.data.total_supply =
                        saturating_add(old.total_supply, out.minted)
                 /\ ( /\ slot % 41 # 0 /\ slot % 100 # 0
                      /\ U64Geq(MAX_SUPPLY,
                                saturating_add(old.total_supply, plain)) )
                    => out.minted = plain
            /\ ( /\ old = ScenarioA
                 /\ account.owner = "program_id"
                 /\ WellFormed(call)
                 /\ call.clock = [unix_timestamp |-> 0, slot |-> 1] )
               => /\ out.result = "Ok"
                  /\ out.data.total_supply = [hi |-> 0, lo |-> 10000]

\* Initialize{1000, 100} at time 0, then the Mine at time 0 and slot 1
C13_Witness ==
    /\ last.op = "Mine"
    /\ pre = ScenarioA
    /\ last.clock = [unix_timestamp |-> 0, slot |-> 1]
    /\ last.minted = 10000
    /\ account.data.total_supply = [hi |-> 0, lo |-> 10000]
    /\ account.data.total_transactions = [hi |-> 0, lo |-> 1]
    /\ account.data.last_mining_timestamp = 0

\* C14: a successful Mine whose calculated reward is r has the reward
\* floor(floor(r * b / 100) * l / 100) before the clamp, with b = 150 if
\* slot % 41 = 0 and (last_energy_burst_slot = 0 or slot -
\* last_energy_burst_slot >= energy_burst_duration), else 100, and l = 110
\* if slot % 100 = 0, else 100; last_energy_burst_slot becomes the slot if
\* b = 150 and is otherwise unchanged.  (The slot of a clock never goes
\* back: the call's slot is not before last_energy_burst_slot.)
C14_BonusOrder ==
    \A call \in MineCalls(BonusTimes, Slots) :
        LET out == Run(call)
            old == account.data
            slot == call.clock.slot
            r == calculate_mining_reward(old, call.clock.unix_timestamp).reward
            b == IF /\ slot % 41 = 0
                    /\ \/ old.last_energy_burst_slot = 0
                       \/ slot - old.last_energy_burst_slot
                              >= old.energy_burst_duration
                 THEN 150 ELSE 100
            l == IF slot % 100 = 0 THEN 110 ELSE 100
        IN  (out.result = "Ok" /\ slot >= old.last_energy_burst_slot) =>
                /\ out.reward = (((r * b) \div 100) * l) \div 100
                /\ out.data.last_energy_burst_slot =
                       IF b = 150 THEN slot ELSE old.last_energy_burst_slot

\* difficulty 1000, epoch 6, slot 4100 with both bonuses: 156 -> 234 -> 257
C14_Witness ==
    /\ last.op = "Mine"
    /\ pre.mining_difficulty = 1000
    /\ pre.initialization_timestamp = 0
    /\ last.clock = [unix_timestamp |-> 6 * HALVING_INTERVAL, slot |-> 4100]
    /\ last.reward = 257
    /\ pre.last_energy_burst_slot = 0
    /\ account.data.last_energy_burst_slot = 4100

GateTimes(state) ==
    {state.last_mining_timestamp + d : d \in {0, 1, 1799, 1800}}
    \cup {ScheduleEnd + MINING_COOLDOWN}

\* C15: a Mine with the accounts it needs returns CooldownActive whenever
\* the cooldown is active (last_mining_timestamp # 0 and less than
\* MINING_COOLDOWN seconds ago), also on a poop slot, with the supply at the
\* cap or after the end of the schedule; otherwise PoopDiscovered whenever
\* the slot is a poop slot, also with the supply at the cap; otherwise
\* MaxSupplyReached if the supply is at the cap or the schedule has ended,
\* and none of the three if not.  The clock times are on both sides of the
\* end of the cooldown of the last Mine, and after the end of the schedule;
\* the slots are of every kind.
C15_GateOrder ==
    \A call \in MineCalls(GateTimes(account.data), Slots) :
        LET out == Run(call)
            s == account.data
            t == call.clock.unix_timestamp
            cooldown == /\ s.last_mining_timestamp # 0
                        /\ t - s.last_mining_timestamp < 1800
            poop == call.clock.slot \in PoopSlots
            capped == U64Geq(s.total_supply, MAX_SUPPLY)
            exhausted == t - s.initialization_timestamp >= ScheduleEnd
        IN  (WellFormed(call) /\ account.owner = "program_id") =>
                IF cooldown THEN out.result = "CooldownActive"
                ELSE IF poop THEN out.result = "PoopDiscovered"
                ELSE IF capped \/ exhausted
                THEN out.result = "MaxSupplyReached"
                ELSE out.result \notin {"CooldownActive", "PoopDiscovered",
                                        "MaxSupplyReached"}

\* one second after a Mine in the last second of the schedule, a Mine on
\* poop slot 10 returns CooldownActive; after the cooldown it returns
\* PoopDiscovered, and on slot 1 MaxSupplyReached
C15_Witness ==
    /\ mined.seen /\ ~mined.reinit
    /\ mined.at = ScheduleEnd - 1
    /\ account.data.last_mining_timestamp = ScheduleEnd - 1
    /\ Run(Call("Mine", 0, 0, GoodAccounts,
                [unix_timestamp |-> ScheduleEnd, slot |-> 10])).result
          = "CooldownActive"
    /\ Run(Call("Mine", 0, 0, GoodAccounts,
                [unix_timestamp |-> ScheduleEnd + HALVING_INTERVAL,
                 slot |-> 10])).result = "PoopDiscovered"
    /\ Run(Call("Mine", 0, 0, GoodAccounts,
                [unix_timestamp |-> ScheduleEnd + HALVING_INTERVAL,
                 slot |-> 1])).result = "MaxSupplyReached"

\* C16: a successful UpdateDifficulty{n} sets mining_difficulty = n and
\* changes no other field, and on an account of the program with n >=
\* MIN_DIFFICULTY it succeeds whether or not a Mine would be in cooldown; a
\* successful Mine leaves mining_difficulty, total_miners,
\* energy_burst_duration and initialization_timestamp unchanged.
C16_Frame ==
    /\ \A call \in UpdateDifficultyCalls :
          LET out == Run(call)
              n == call.instruction.mining_difficulty
          IN  /\ out.result = "Ok" =>
                   out.data = [account.data EXCEPT !.mining_difficulty = n]
              /\ ( /\ call.accounts_len >= 1
                   /\ account.owner = "program_id"
                   /\ n >= MIN_DIFFICULTY )
                 => out.result = "Ok"
    /\ \A call \in AllMineCalls :
          LET out == Run(call)
              old == account.data
          IN  out.result = "Ok" =>
                /\ out.data.mining_difficulty = old.mining_difficulty
                /\ out.data.total_miners = old.total_miners
                /\ out.data.energy_burst_duration = old.energy_burst_duration
                /\ out.data.initialization_timestamp =
                       old.initialization_timestamp

\* one second before the end of the cooldown of a Mine at 1000, the
\* difficulty was raised from 100 to 1000; the cooldown is still active
C16_Witness ==
    /\ last.op = "UpdateDifficulty"
    /\ mined.seen /\ ~mined.reinit /\ mined.at = 1000
    /\ pre.mining_difficulty = 100
    /\ account.data = [pre EXCEPT !.mining_difficulty = 1000]
    /\ account.data.last_mining_timestamp = 1000
    /\ Run(Call("Mine", 0, 0, GoodAccounts,
                [unix_timestamp |-> 2799, slot |-> 1])).result
          = "CooldownActive"

\* clock times before initialization_timestamp = init: one second, and one
\* and two whole halving intervals
EarlyTimes(init) ==
    {init - 1, init - HALVING_INTERVAL, init - 2 * HALVING_INTERVAL}

\* C17 as claimed: for a clock time before initialization_timestamp the
\* reward calculator has time_since_start = 0 and halving_epoch = 0, and
\* returns floor(INITIAL_BASE_REWARD / mining_difficulty).
C17_ElapsedNeverNegative ==
    LET s == account.data
    IN  (s.mining_difficulty >= MIN_DIFFICULTY
            /\ U64Gt(MAX_SUPPLY, s.total_supply)) =>
        \A t \in EarlyTimes(s.initialization_timestamp) \cup Times :
            t < s.initialization_timestamp =>
                /\ time_since_start(s, t) = 0
                /\ halving_epoch(s, t) = 0
                /\ calculate_mining_reward(s, t) =
                       [err |-> "Ok",
                        reward |-> INITIAL_BASE_REWARD
                                       \div s.mining_difficulty]

\* C17 as amended: for a clock time before initialization_timestamp the
\* reward calculator has a negative time_since_start and a halving_epoch
\* that is 0 or negative; it halves nothing and returns
\* floor(INITIAL_BASE_REWARD / mining_difficulty).
C17_NegativeElapsedHalvesNothing ==
    LET s == account.data
    IN  (s.mining_difficulty >= MIN_DIFFICULTY
            /\ U64Gt(MAX_SUPPLY, s.total_supply)) =>
        \A t \in EarlyTimes(s.initialization_timestamp) \cup Times :
            t < s.initialization_timestamp =>
                /\ time_since_start(s, t) < 0
                /\ halving_epoch(s, t) <= 0
                /\ current_base_reward(s, t) = INITIAL_BASE_REWARD
                /\ calculate_mining_reward(s, t) =
                       [err |-> "Ok",
                        reward |-> INITIAL_BASE_REWARD
                                       \div s.mining_difficulty]

\* Initialize{1000, _} at time 1000, then a Mine at time 0 and slot 1 mints
\* 10,000; at time 1000 - HALVING_INTERVAL the halving epoch is -1
C17_Witness ==
    /\ last.op = "Mine"
    /\ pre.initialization_timestamp = 1000
    /\ pre.mining_difficulty = 1000
    /\ last.clock = [unix_timestamp |-> 0, slot |-> 1]
    /\ last.reward = 10000
    /\ time_since_start(pre, 0) = -1000
    /\ halving_epoch(pre, 1000 - HALVING_INTERVAL) = -1

\* C18 as claimed: whenever a Mine gets to the division of the reward
\* calculation (it has the accounts it needs, passes both gates, the supply
\* is below the cap and the halved base reward is positive), the divisor
\* mining_difficulty is at least MIN_DIFFICULTY; so also on an account of the
\* program on which Initialize was never called.
C18_DivisorNeverZero ==
    \A call \in AllMineCalls :
        LET s == account.data
            t == call.clock.unix_timestamp
        IN  ( /\ WellFormed(call)
              /\ account.owner = "program_id"
              /\ ~cooldown_active(s, t)
              /\ ~poop_discovered(call.clock.slot)
              /\ U64Gt(MAX_SUPPLY, s.total_supply)
              /\ current_base_reward(s, t) > 0 )
            => /\ s.mining_difficulty >= MIN_DIFFICULTY
               /\ Run(call).result # "DivideByZero"

\* C19: with initialization_timestamp = init, a Mine with the accounts it
\* needs that passes the cooldown and poop gates at a clock time of at
\* least init + 24 * HALVING_INTERVAL fails with MaxSupplyReached and
\* changes nothing; in each of the epochs 0..23 the halved base reward is
\* at least 1 and, with the supply below the cap, such a Mine does not
\* return MaxSupplyReached (it succeeds if mining_difficulty is not 0).
C19_ScheduleExhaustion ==
    \A call \in MineCalls(EpochTimes \cup LateTimes, Slots) :
        LET out == Run(call)
            s == account.data
            elapsed == call.clock.unix_timestamp - s.initialization_timestamp
        IN  ( /\ WellFormed(call)
              /\ account.owner = "program_id"
              /\ elapsed >= 0
              /\ out.result \notin {"CooldownActive", "PoopDiscovered"} )
            => IF elapsed >= 24 * HALVING_INTERVAL
               THEN /\ out.result = "MaxSupplyReached"
                    /\ out.data = s
               ELSE /\ current_base_reward(s, call.clock.unix_timestamp) >= 1
                    /\ U64Gt(MAX_SUPPLY, s.total_supply) =>
                          /\ out.result # "MaxSupplyReached"
                          /\ s.mining_difficulty # 0 => out.result = "Ok"

\* a Mine succeeded in epoch 23 (base reward 1, reward 0); one epoch later
\* a Mine fails with MaxSupplyReached
C19_Witness ==
    /\ last.op = "Mine"
    /\ pre.initialization_timestamp = 0
    /\ last.clock.unix_timestamp = 23 * HALVING_INTERVAL
    /\ current_base_reward(pre, last.clock.unix_timestamp) = 1
    /\ U64Gt(MAX_SUPPLY, account.data.total_supply)
    /\ Run(Call("Mine", 0, 0, GoodAccounts,
                [unix_timestamp |-> 24 * HALVING_INTERVAL,
                 slot |-> 1])).result = "MaxSupplyReached"

\* C20: a Mine that passes the gates with the supply below the cap and a
\* halved base reward that is positive but smaller than mining_difficulty
\* succeeds with reward 0: total_supply is unchanged, last_mining_timestamp
\* is the clock time and total_transactions is one higher.
C20_ZeroRewardMine ==
    \A call \in MineCalls(EpochTimes \cup LateTimes, Slots) :
        LET out == Run(call)
            s == account.data
            t == call.clock.unix_timestamp
            k == (t - s.initialization_timestamp) \div HALVING_INTERVAL
            base == INITIAL_BASE_REWARD \div (2 ^ k)
        IN  ( /\ WellFormed(call)
              /\ account.owner = "program_id"
              /\ t >= s.initialization_timestamp
              /\ out.result \notin {"CooldownActive", "PoopDiscovered"}
              /\ U64Gt(MAX_SUPPLY, s.total_supply)
              /\ 0 < base /\ base < s.mining_difficulty )
            => /\ out.result = "Ok"
               /\ out.reward = 0 /\ out.minted = 0
               /\ out.data.total_supply = s.total_supply
               /\ out.data.last_mining_timestamp = t
               /\ out.data.total_transactions =
                      saturating_add(s.total_transactions, 1)

\* difficulty 1000 at epoch 14: the base reward is 610 and the Mine mints 0
C20_Witness ==
    /\ last.op = "Mine"
    /\ pre.mining_difficulty = 1000
    /\ pre.initialization_timestamp = 0
    /\ last.clock.unix_timestamp = 14 * HALVING_INTERVAL
    /\ current_base_reward(pre, last.clock.unix_timestamp) = 610
    /\ last.reward = 0 /\ last.minted = 0
    /\ account.data.total_supply = pre.total_supply
    /\ account.data.last_mining_timestamp = 14 * HALVING_INTERVAL
    /\ account.data.total_transactions =
          saturating_add(pre.total_transactions, 1)

\* the most one Mine can mint: the reward of difficulty MIN_DIFFICULTY in
\* epoch 0 with both bonuses, 100,000 -> 150,000 -> 165,000
MaxMint ==
    LET after_burst ==
            ((INITIAL_BASE_REWARD \div MIN_DIFFICULTY) * ENERGY_BURST_BONUS)
                \div 100
    IN  (after_burst * LUCKY_PURR_BONUS) \div 100

\* floor(a / n) and a % n for a two-limb a and 0 < n < 2^21, by long
\* division of the low limb in three digits of base 1000
U64DivMod(a, n) ==
    LET r1 == (a.hi % n) * 1000 + (a.lo \div 1000000)
        r2 == (r1 % n) * 1000 + ((a.lo \div 1000) % 1000)
        r3 == (r2 % n) * 1000 + (a.lo % 1000)
    IN  [quot |-> [hi |-> a.hi \div n,
                   lo |-> (r1 \div n) * 1000000 + (r2 \div n) * 1000
                              + (r3 \div n)],
         rem |-> r3 % n]

\* a <= n * b for two-limb a, b
U64LeqTimes(a, n, b) ==
    LET d == U64DivMod(a, n)
    IN  \/ U64Gt(b, d.quot)
        \/ (b = d.quot /\ d.rem = 0)

\* C21: in every reachable state total_supply <= 165,000 *
\* total_transactions; a Mine mints at most 165,000 and raises
\* total_transactions by 1.
C21_SupplyPerTransaction ==
    /\ MaxMint = 165000
    /\ U64LeqTimes(account.data.total_supply, 165000,
                   account.data.total_transactions)
    /\ last.op = "Mine" =>
          /\ last.minted <= 165000
          /\ account.data.total_transactions =
                 saturating_add(pre.total_transactions, 1)

\* after Initialize{100, _} two Mines on slots with both bonuses minted
\* 165,000 each: total_supply = 165,000 * total_transactions exactly
C21_Witness ==
    /\ last.op = "Mine"
    /\ ~mined.reinit
    /\ last.minted = 165000
    /\ account.data.total_transactions = [hi |-> 0, lo |-> 2]
    /\ account.data.total_supply = [hi |-> 0, lo |-> 330000]

====
